---- MODULE Spec2Model ----
(***************************************************************************)
(* PlayPackFactory as state machines.                                      *)
(*                                                                         *)
(* pack.py: the category selector and the quota allocation loop of         *)
(* create_sample_pack (Spec, SpecFair, SpecRounds), collect_wav_files      *)
(* (SpecCollect), generate_unique_two_word_names (SpecNames) and main      *)
(* with the materialization of the plan (SpecMain).                        *)
(* main.py: the reduction of the kinds and the copy loop of main for one   *)
(* library (SpecLegacy).                                                   *)
(*                                                                         *)
(* A file path is a pair <<directory, n>>, where n is a number in the      *)
(* allocation loop and a file name in the collector and in main.  A pool   *)
(* (a Python list of paths) is a sequence; a dict is a sequence of         *)
(* [key, files] records in insertion order (sample_map) or a function on   *)
(* its keys.  A string that the code looks into (a directory or file name, *)
(* a pack name) is a sequence of one-character strings.                    *)
(* MAX_FILES_PER_PACK and MAX_FOLDERS_PER_PACK are module-level settings   *)
(* of pack.py (255 and 20); the model keeps them as state that never       *)
(* changes and draws them from 1..MaxBudget and 1..MaxFolders, so that the *)
(* budget and the folder cap bind on pools of a few files.                 *)
(***************************************************************************)
EXTENDS Integers, Sequences, FiniteSets, TLC

(* ------------------------------ bounds --------------------------------- *)
\* largest file budget (MAX_FILES_PER_PACK) tried in Spec
MaxBudget == 8
\* largest folder cap (MAX_FOLDERS_PER_PACK) tried
MaxFolders == 3
\* largest number of files a category has of its own in Spec
MaxPoolLen == 2
\* largest pool of the two-category maps of Spec
MaxDeepLen == 6
\* largest file budget tried in SpecRounds
MaxRoundsBudget == 24
\* largest number of kinds of a library in the reduction passes of main.py
MaxLegacyKinds == 8
\* largest number of files of a kind in the copy loop of main.py
MaxLegacyPool == 3
\* largest number of names asked of generate_unique_two_word_names
MaxNames == 2
\* largest file budget (MAX_FILES_PER_PACK) tried in SpecMain
MaxMainBudget == 2
\* largest number of source roots of a call of collect_wav_files
MaxRoots == 2
\* largest number of files of the directory that holds the filtered files
MaxDirFiles == 2

VARIABLES
    MAX_FILES_PER_PACK,    \* pack.py:836
    MAX_FOLDERS_PER_PACK,  \* pack.py:835
    sample_map,            \* the argument of create_sample_pack
    pc,                    \* position in create_sample_pack
    all_kinds,             \* pack.py:1050
    remaining_samples,     \* pack.py:1059
    selected_files,        \* pack.py:1030
    files_left,            \* pack.py:1054
    files_inserted,        \* pack.py:1053
    files_per_kind,        \* pack.py:1064
    i,                     \* pack.py:1055
    not_empty,             \* pack.py:1056
    kind_idx,              \* position of `for kind_key in all_kinds`
    lib_val,               \* main.py:195, one library of LIBRARY_MAP
    tree,                  \* the files of each directory of the sample library
    source_dirs,           \* pack.py:944, argument of collect_wav_files
    regex,                 \* pack.py:944, <<>> for None
    include_dirs,          \* pack.py:944
    exclude_dirs,          \* pack.py:944
    wav_files,             \* pack.py:960
    num_packs,             \* pack.py:1147, the n of generate_unique_two_word_names
    existing_names,        \* pack.py:849, main's existing_packs
    names,                 \* pack.py:863
    fake_unique,           \* the words fake.unique has returned (pack.py:846)
    command,               \* pack.py:1146, args.command
    disk,                  \* the entries of PLAY_PACKS_DIR (pack.py:833)
    pending,               \* pack.py:1172, the names `for pack_name` has to come to
    pack_name,             \* pack.py:1172
    sub_idx,               \* position of `for subfolder, files` (pack.py:1089)
    file_idx               \* position of `for file_path in files` (pack.py:1096)

\* the state of create_sample_pack's selector and allocation loop
planVars == <<MAX_FILES_PER_PACK, MAX_FOLDERS_PER_PACK, sample_map, pc, all_kinds,
              remaining_samples, selected_files, files_left, files_inserted,
              files_per_kind, i, not_empty, kind_idx>>

\* the state of a call of collect_wav_files
collectVars == <<tree, source_dirs, regex, include_dirs, exclude_dirs, wav_files>>

\* the state of main around its calls
mainVars == <<command, disk, pending, pack_name, sub_idx, file_idx>>

\* the state of a call of generate_unique_two_word_names
namerVars == <<num_packs, existing_names, names, fake_unique>>

\* the state that create_sample_pack's selector and allocation loop never
\* touch
outsidePlan == <<lib_val, collectVars, namerVars, mainVars>>

\* the state that main.py never touches
outsideLegacy == <<collectVars, namerVars, mainVars>>

\* the state that collect_wav_files never touches
outsideCollect == <<lib_val, namerVars, mainVars>>

\* the state that generate_unique_two_word_names never touches
outsideNamer == <<lib_val, collectVars, mainVars>>

vars == <<planVars, outsidePlan>>

(* ------------------------------ helpers -------------------------------- *)
Range(s) == {s[j] : j \in 1..Len(s)}

Min(a, b) == IF a < b THEN a ELSE b

\* Python's s[:n] for n >= 0
Take(s, n) == SubSeq(s, 1, Min(n, Len(s)))

\* Python's sum(len(v) for v in d.values()) for a dict held as a function
RECURSIVE SumLen(_, _)
SumLen(f, keys) ==
    IF keys = {} THEN 0
    ELSE LET k == CHOOSE x \in keys : TRUE
         IN Len(f[k]) + SumLen(f, keys \ {k})

\* the keys of a dict held as a sequence of records, in insertion order
Keys(m) == [j \in 1..Len(m) |-> m[j].key]

\* m[k] for a dict held as a sequence of records
Get(m, k) == m[CHOOSE j \in 1..Len(m) : m[j].key = k].files

(* --------------------------- category selector ------------------------- *)
\* pack.py:1038
FILL_KEYS == <<"Kick", "Snare", "HiHat", "Synth", "Bass">>

\* pack.py:1033: [k for k, v in sample_map.items() if len(v) > 0]
available_subfolders(m) ==
    SelectSeq(Keys(m), LAMBDA k : Len(Get(m, k)) > 0)

\* pack.py:1039: [k for k in FILL_KEYS if k in available_subfolders]
prioritized_subfolders(avail) ==
    SelectSeq(FILL_KEYS, LAMBDA k : k \in Range(avail))

\* pack.py:1040: [k for k in available_subfolders if k not in prioritized_subfolders]
remaining_subfolders(avail) ==
    SelectSeq(avail, LAMBDA k : k \notin Range(prioritized_subfolders(avail)))

\* selected_subfolders when the fill from the other categories is not cut
\* to the free folders
selected_subfolders_NoCap(m, maxFolders) ==
    LET avail == available_subfolders(m)
    IN  IF Len(avail) > maxFolders
        THEN LET sel == Take(prioritized_subfolders(avail), maxFolders)
             IN  IF Len(sel) < maxFolders
                 THEN sel \o remaining_subfolders(avail)
                 ELSE sel
        ELSE avail

\* selected_subfolders when the cap cuts the list in pool-build order
selected_subfolders_MapOrder(m, maxFolders) ==
    Take(available_subfolders(m), maxFolders)

\* pack.py:1036-1045
selected_subfolders(m, maxFolders) ==
    LET avail == available_subfolders(m)
    IN  IF Len(avail) > maxFolders
        THEN LET sel == Take(prioritized_subfolders(avail), maxFolders)
             IN  IF Len(sel) < maxFolders
                 THEN sel \o Take(remaining_subfolders(avail), maxFolders - Len(sel))
                 ELSE sel
        ELSE avail

(* ---------------------------- quota allocator -------------------------- *)
\* NoKinds when the loop does not look at the number of categories
NoKinds_Never(kinds) == FALSE

\* pack.py:1062: if len(all_kinds) == 0
NoKinds(kinds) == Len(kinds) = 0

\* LoopCondition without the progress guard
LoopCondition_NoGuard == files_left > 0

\* pack.py:1061: while files_left > 0 and not_empty
LoopCondition == files_left > 0 /\ not_empty

\* FilesPerKind when the quota is not divided by the round number
FilesPerKind_NoShrink(budget, n, round) == budget \div n

\* FilesPerKind when the quota halves from one round to the next
FilesPerKind_Halving(budget, n, round) == (budget \div n) \div (2 ^ (round - 1))

\* FilesPerKind when the rounds are counted from 0 and the divisor is one
\* more than the round
FilesPerKind_NextRound(budget, n, round) == (budget \div n) \div (round + 1)

\* pack.py:1064-1066: MAX_FILES_PER_PACK // len(all_kinds), then // i when i > 0
FilesPerKind(budget, n, round) ==
    LET q == budget \div n
    IN  IF round > 0 THEN q \div round ELSE q

\* pack.py:1073: min(files_per_kind, len(kind_val))
SampleNum(quota, kind_val) == Min(quota, Len(kind_val))

\* LeftAfter when files_left is not reset to 0 after the decrement
LeftAfter_NoReset(left, sample_num) == left - sample_num

\* pack.py:1076-1079: files_left after the decrement and the clamp at 0
LeftAfter(left, sample_num) ==
    IF left - sample_num < 0 THEN 0 ELSE left - sample_num

\* ClampedSampleNum when the draw is not cut to the budget that is left
ClampedSampleNum_NoClamp(left, sample_num) == sample_num

\* pack.py:1076-1079: sample_num after `sample_num += files_left` when the
\* decrement took files_left below 0
ClampedSampleNum(left, sample_num) ==
    IF left - sample_num < 0 THEN sample_num + (left - sample_num) ELSE sample_num

\* the sub-list of s at the positions in pos, in list order
RECURSIVE AtPositions(_, _)
AtPositions(s, pos) ==
    IF s = <<>> THEN <<>>
    ELSE LET rest == AtPositions(Tail(s), {j - 1 : j \in pos \ {1}})
         IN  IF 1 \in pos THEN <<Head(s)>> \o rest ELSE rest

\* pack.py:1081: random.sample(kind_val, sample_num) draws sample_num distinct
\* positions of the list; every choice of positions is a possible outcome.
\* (The order of the returned list is not modelled: nothing reads it.)
RandomSample(kind_val, sample_num) ==
    {AtPositions(kind_val, pos) :
        pos \in {q \in SUBSET (1..Len(kind_val)) : Cardinality(q) = sample_num}}

\* RemainingAfter when the drawn files stay in the remaining pool
RemainingAfter_Keep(kind_val, random_subset) == kind_val

\* pack.py:1082: [x for x in kind_val if x not in random_subset]
RemainingAfter(kind_val, random_subset) ==
    SelectSeq(kind_val, LAMBDA x : x \notin Range(random_subset))

(* ------------------------------- inputs -------------------------------- *)
\* n files that only category c has
Private(c, n) == [j \in 1..n |-> <<c, j>>]

\* a file under a source root that several categories list (pack.py:688-690,
\* 809-829: XDrum and Random walk the Snare, HiHat, ... roots again); a root
\* nested in another root of the same category (pack.py:37-38) brings it
\* into one pool twice
SharedFile == <<"Drums", 0>>

\* how often a pool can hold SharedFile
Copies == {0, 1, 2}

Pool(c, own, shared) == Private(c, own) \o [j \in 1..shared |-> SharedFile]

\* build_sample_map (pack.py:1004-1013) fills the dict in this order
AllocOrder == <<"Snare", "XDrum", "Random">>

\* sample maps for the allocator: rich pools, keys in AllocOrder
AllocMaps ==
    {[j \in 1..Len(AllocOrder) |->
        [key |-> AllocOrder[j], files |-> Pool(AllocOrder[j], own[j], sh[j])]] :
        own \in [1..Len(AllocOrder) -> 0..MaxPoolLen],
        sh \in [1..Len(AllocOrder) -> Copies]}

SelectCategories == {"Kick", "Snare", "XDrum", "Random"}

\* sample maps for the selector: every key order, pools empty or of one file
SelectMaps ==
    {[j \in 1..Cardinality(SelectCategories) |->
        [key |-> order[j], files |-> Private(order[j], own[order[j]])]] :
        order \in {o \in [1..Cardinality(SelectCategories) -> SelectCategories] :
                      \A a, b \in DOMAIN o : a # b => o[a] # o[b]},
        own \in [SelectCategories -> {0, 1}]}

DeepOrder == <<"Kick", "Snare">>

\* sample maps for the clamp: two pools of files of their own, large enough
\* for a draw of several files to meet a budget that is nearly spent
DeepMaps ==
    {[j \in 1..Len(DeepOrder) |->
        [key |-> DeepOrder[j], files |-> Private(DeepOrder[j], own[j])]] :
        own \in [1..Len(DeepOrder) -> 0..MaxDeepLen]}

\* sample maps for the round count: pools of files of their own.  Each pool
\* is empty, small, or as large as the budget (no more than the budget is
\* ever drawn), but for one pool at most, which has any size up to the budget:
\* one large pool next to small ones.
RoundsMaps(budget) ==
    {[j \in 1..Len(AllocOrder) |->
        [key |-> AllocOrder[j], files |-> Private(AllocOrder[j], own[j])]] :
        own \in {o \in [1..Len(AllocOrder) -> 0..budget] :
                    Cardinality({j \in DOMAIN o : o[j] \notin {0, 1, 2, budget}}) <= 1}}

\* pack.py does not run main.py
NotLegacy == lib_val = <<>>

\* collect_wav_files is not running
NoWalk ==
    /\ tree = <<>>
    /\ source_dirs = <<>>
    /\ regex = <<>>
    /\ include_dirs = <<>>
    /\ exclude_dirs = <<>>
    /\ wav_files = <<>>

\* the generator is not running
NoNames ==
    /\ num_packs = 0
    /\ existing_names = {}
    /\ names = {}
    /\ fake_unique = {}

\* main is not running
NoMain ==
    /\ command = "none"
    /\ disk = {}
    /\ pending = {}
    /\ pack_name = <<>>
    /\ sub_idx = 0
    /\ file_idx = 0

\* the locals of the allocation loop before it runs
Locals ==
    /\ all_kinds = <<>>
    /\ remaining_samples = <<>>
    /\ selected_files = <<>>
    /\ files_left = 0
    /\ files_inserted = 0
    /\ files_per_kind = 0
    /\ i = 0
    /\ not_empty = FALSE
    /\ kind_idx = 0

\* create_sample_pack before it runs
Entry == pc = "start" /\ Locals

\* Every folder cap meets the maps of the selector; the maps of the
\* allocator, of two or three categories, meet the cap that admits them all.
Init ==
    /\ MAX_FILES_PER_PACK \in 1..MaxBudget
    /\ \/ /\ MAX_FOLDERS_PER_PACK \in 1..MaxFolders
          /\ sample_map \in SelectMaps
       \/ /\ MAX_FOLDERS_PER_PACK = MaxFolders
          /\ sample_map \in AllocMaps \cup DeepMaps
    /\ Entry
    /\ NotLegacy
    /\ NoWalk
    /\ NoNames
    /\ NoMain

InitRounds ==
    /\ MAX_FILES_PER_PACK \in 1..MaxRoundsBudget
    /\ MAX_FOLDERS_PER_PACK \in 1..MaxFolders
    /\ sample_map \in RoundsMaps(MAX_FILES_PER_PACK)
    /\ Entry
    /\ NotLegacy
    /\ NoWalk
    /\ NoNames
    /\ NoMain

(* ------------------------------- actions ------------------------------- *)
config == <<MAX_FILES_PER_PACK, MAX_FOLDERS_PER_PACK, sample_map>>

\* pack.py:1027-1059: the selector and the allocator's initial state
SelectSubfolders ==
    /\ pc = "start"
    /\ all_kinds' = selected_subfolders(sample_map, MAX_FOLDERS_PER_PACK)
    /\ selected_files' = [k \in Range(Keys(sample_map)) |-> <<>>]
    /\ remaining_samples' = [k \in Range(all_kinds') |-> Get(sample_map, k)]
    /\ files_inserted' = 0
    /\ files_left' = MAX_FILES_PER_PACK
    /\ i' = 1
    /\ not_empty' = TRUE
    /\ pc' = "loop"
    /\ UNCHANGED <<config, files_per_kind, kind_idx, outsidePlan>>

\* pack.py:1061-1067: the loop test, the break on no category, the quota;
\* MAX_FILES_PER_PACK // len(all_kinds) raises ZeroDivisionError on an empty
\* all_kinds, which nothing catches
RoundStart ==
    /\ pc = "loop"
    /\ IF LoopCondition /\ ~NoKinds(all_kinds)
       THEN IF Len(all_kinds) = 0
            THEN /\ pc' = "ZeroDivisionError"
                 /\ UNCHANGED <<files_per_kind, not_empty, kind_idx>>
            ELSE /\ files_per_kind' =
                       FilesPerKind(MAX_FILES_PER_PACK, Len(all_kinds), i)
                 /\ not_empty' = FALSE
                 /\ kind_idx' = 1
                 /\ pc' = "kinds"
       ELSE /\ pc' = "done"
            /\ UNCHANGED <<files_per_kind, not_empty, kind_idx>>
    /\ UNCHANGED <<config, all_kinds, remaining_samples, selected_files,
                   files_left, files_inserted, i, outsidePlan>>

\* SampleMapAfter when remaining_samples is sample_map itself and not a
\* dict of its own, as lib_val is in main.py:236
SampleMapAfter_Aliased(m, kind_key, left_over) ==
    [j \in 1..Len(m) |->
        IF m[j].key = kind_key THEN [m[j] EXCEPT !.files = left_over] ELSE m[j]]

\* pack.py:1059, 1082: remaining_samples is a dict of its own that holds
\* copies of the lists, so the assignment to remaining_samples[kind_key]
\* leaves the sample_map of the caller as it is
SampleMapAfter(m, kind_key, left_over) == m

\* Draw when the drawn files are not added to files_inserted
Draw_NoCount(kind_key, kind_val, random_subset) ==
    /\ remaining_samples' =
         [remaining_samples EXCEPT ![kind_key] = RemainingAfter(kind_val, random_subset)]
    /\ selected_files' =
         [selected_files EXCEPT ![kind_key] = @ \o random_subset]
    /\ files_inserted' = files_inserted
    /\ sample_map' = SampleMapAfter(sample_map, kind_key,
                                    RemainingAfter(kind_val, random_subset))

\* pack.py:1080-1084 for the drawn random_subset
Draw(kind_key, kind_val, random_subset) ==
    /\ remaining_samples' =
         [remaining_samples EXCEPT ![kind_key] = RemainingAfter(kind_val, random_subset)]
    /\ selected_files' =
         [selected_files EXCEPT ![kind_key] = @ \o random_subset]
    /\ files_inserted' = files_inserted + Len(random_subset)
    /\ sample_map' = SampleMapAfter(sample_map, kind_key,
                                    RemainingAfter(kind_val, random_subset))

\* pack.py:1069-1084: one pass of the body of `for kind_key in all_kinds`,
\* drawing with the sample that sample_of(kind_val, n) allows
KindBody(kind_key, kind_val, samples) ==
    LET sample_num == SampleNum(files_per_kind, kind_val)
    IN  IF kind_val # <<>> /\ sample_num > 0
        THEN /\ not_empty' = TRUE
             /\ files_left' = LeftAfter(files_left, sample_num)
             /\ IF ClampedSampleNum(files_left, sample_num) > 0
                THEN \E random_subset \in samples :
                        Draw(kind_key, kind_val, random_subset)
                ELSE UNCHANGED <<remaining_samples, selected_files, files_inserted,
                                 sample_map>>
        ELSE UNCHANGED <<not_empty, files_left, remaining_samples,
                         selected_files, files_inserted, sample_map>>

\* pack.py:1069-1084
KindStep ==
    /\ pc = "kinds"
    /\ kind_idx <= Len(all_kinds)
    /\ LET kind_key == all_kinds[kind_idx]
           kind_val == remaining_samples[kind_key]
       IN  KindBody(kind_key, kind_val,
                    RandomSample(kind_val,
                        ClampedSampleNum(files_left, SampleNum(files_per_kind, kind_val))))
    /\ kind_idx' = kind_idx + 1
    /\ UNCHANGED <<MAX_FILES_PER_PACK, MAX_FOLDERS_PER_PACK, pc, all_kinds,
                   files_per_kind, i, outsidePlan>>

\* pack.py:1085: i += 1 when the for loop is through.  No run reaches the
\* cap: the quota is 0 from round MAX_FILES_PER_PACK + 1 on.
RoundEnd ==
    /\ pc = "kinds"
    /\ kind_idx > Len(all_kinds)
    /\ i <= MAX_FILES_PER_PACK + 1
    /\ i' = i + 1
    /\ pc' = "loop"
    /\ UNCHANGED <<config, all_kinds, remaining_samples, selected_files,
                   files_left, files_inserted, files_per_kind, not_empty, kind_idx,
                   outsidePlan>>

Next == SelectSubfolders \/ RoundStart \/ KindStep \/ RoundEnd

Spec == Init /\ [][Next]_vars

\* create_sample_pack is straight-line sequential code: a step that can be
\* taken is taken
SpecFair == Spec /\ WF_vars(Next)

\* In InitRounds no path occurs twice, in one pool or in two, so every
\* permutation of the files of a pool maps runs of the loop to runs of the
\* loop with the same counts; one sample per count stands for all of them.
FirstSample(kind_val, sample_num) == {Take(kind_val, sample_num)}

\* pack.py:1069-1084, sampling up to the order of the files of a pool
KindStepFirst ==
    /\ pc = "kinds"
    /\ kind_idx <= Len(all_kinds)
    /\ LET kind_key == all_kinds[kind_idx]
           kind_val == remaining_samples[kind_key]
       IN  KindBody(kind_key, kind_val,
                    FirstSample(kind_val,
                        ClampedSampleNum(files_left, SampleNum(files_per_kind, kind_val))))
    /\ kind_idx' = kind_idx + 1
    /\ UNCHANGED <<MAX_FILES_PER_PACK, MAX_FOLDERS_PER_PACK, pc, all_kinds,
                   files_per_kind, i, outsidePlan>>

NextRounds == SelectSubfolders \/ RoundStart \/ KindStepFirst \/ RoundEnd

SpecRounds == InitRounds /\ [][NextRounds]_vars

(* ---------------------- main.py, the earlier script --------------------- *)
\* main.py:35 (FILL_KEYS of main.py:32 is the list of pack.py:1038)
KEEPER_KINDS ==
    FILL_KEYS \o <<"Percussion", "Tom", "Cymbal", "Metal", "Blip", "Vocal",
                   "Hand Drum", "Mallet Drum", "Noise", "Chord", "Stab & Hit">>

\* kind folders of a library that list_files_in_directory (main.py:133-156)
\* maps to no kept kind
OtherKinds ==
    <<"Clave", "Cowbell", "Conga", "Bongo", "Timbale", "Triangle",
      "Whistle", "Snap", "Rim", "Stick", "Bell", "Block">>

\* Python's list.remove(k): the list without the first occurrence of k
RemoveFirst(list, k) ==
    LET at == CHOOSE j \in 1..Len(list) :
                  list[j] = k /\ \A h \in 1..(j - 1) : list[h] # k
    IN  SubSeq(list, 1, at - 1) \o SubSeq(list, at + 1, Len(list))

\* main.py:201-206 and 210-215: `for k in all_kinds` removing from all_kinds
\* while it iterates.  The list iterator holds a position: after a removal
\* the element that moved into the freed slot is not visited.  idx is the
\* iterator's position (from 1), keep the kinds the pass leaves in, limit
\* the length at which the pass breaks.
RECURSIVE RemovePass(_, _, _, _)
RemovePass(kinds, idx, keep, limit) ==
    IF idx > Len(kinds) THEN kinds
    ELSE IF kinds[idx] \notin keep
         THEN LET rest == RemoveFirst(kinds, kinds[idx])
              IN  IF Len(rest) <= limit THEN rest
                  ELSE RemovePass(rest, idx + 1, keep, limit)
         ELSE RemovePass(kinds, idx + 1, keep, limit)

\* main.py:196-215: all_kinds after the two reduction passes
ReducedKinds(kinds, limit) ==
    IF Len(kinds) > limit
    THEN LET pass1 == RemovePass(kinds, 1, Range(KEEPER_KINDS), limit)
         IN  IF Len(pass1) > limit
             THEN RemovePass(pass1, 1, Range(FILL_KEYS), limit)
             ELSE pass1
    ELSE kinds

\* LegacyMayDraw when the files are copied whatever is left of the limit
LegacyMayDraw_Always(left) == TRUE

\* main.py:234: the sample is copied only if files_left is still positive
\* after the decrement
LegacyMayDraw(left) == left > 0

\* the kind at position j of a library's dict, by the sort of kind
KindName(sort, j) ==
    CASE sort = "fill" -> FILL_KEYS[j]
      [] sort = "keeper" -> KEEPER_KINDS[Len(FILL_KEYS) + j]
      [] OTHER -> OtherKinds[j]

\* libraries for the reduction passes: up to MaxLegacyKinds kinds of one
\* file each, every arrangement of fill kinds, other kept kinds and kinds
\* that are not kept
ReduceLibs ==
    UNION {
      {[j \in 1..len |->
          [key |-> KindName(sort[j], j),
           files |-> Private(KindName(sort[j], j), 1)]] :
          sort \in {t \in [1..len -> {"fill", "keeper", "other"}] :
                      \A j \in 1..len : t[j] = "fill" => j <= Len(FILL_KEYS)}} :
      len \in 0..MaxLegacyKinds}

LegacyOrder == <<"Kick", "Clave", "Snare">>

\* libraries for the copy loop: a few kinds of 1..MaxLegacyPool files
\* (build_library_map, main.py:183-190, deletes the kinds without files)
LoopLibs ==
    UNION {
      {[j \in 1..len |->
          [key |-> LegacyOrder[j], files |-> Private(LegacyOrder[j], own[j])]] :
          own \in [1..len -> 1..MaxLegacyPool]} :
      len \in 1..Len(LegacyOrder)}

\* main.py writes the two limits as the literals 255 and 20; the model reads
\* them from MAX_FILES_PER_PACK and MAX_FOLDERS_PER_PACK.
InitLegacy ==
    /\ \/ /\ MAX_FILES_PER_PACK = MaxBudget
          /\ MAX_FOLDERS_PER_PACK \in 1..MaxFolders
          /\ lib_val \in ReduceLibs
       \/ /\ MAX_FILES_PER_PACK \in 1..MaxBudget
          /\ MAX_FOLDERS_PER_PACK = MaxFolders
          /\ lib_val \in LoopLibs
    /\ sample_map = <<>>
    /\ Locals
    /\ pc = "legacy_start"
    /\ NoWalk
    /\ NoNames
    /\ NoMain

\* main.py:196-224: the reduction of the kinds and the loop's initial state;
\* floordiv(255, len(all_kinds)) raises ZeroDivisionError on a library
\* without kinds
LegacyReduce ==
    /\ pc = "legacy_start"
    /\ all_kinds' = ReducedKinds(Keys(lib_val), MAX_FOLDERS_PER_PACK)
    /\ IF Len(all_kinds') = 0
       THEN /\ pc' = "legacy_raised"
            /\ UNCHANGED <<files_per_kind, files_inserted, files_left, i, not_empty>>
       ELSE /\ files_per_kind' = MAX_FILES_PER_PACK \div Len(all_kinds')
            /\ files_inserted' = 0
            /\ files_left' = MAX_FILES_PER_PACK
            /\ i' = 1
            /\ not_empty' = TRUE
            /\ pc' = "legacy_loop"
    /\ UNCHANGED <<config, remaining_samples, selected_files, kind_idx, lib_val, outsideLegacy>>

\* main.py:225-227: the loop test and the quota, divided by i once more in
\* every round
LegacyRoundStart ==
    /\ pc = "legacy_loop"
    /\ IF files_left > 0 /\ not_empty
       THEN /\ files_per_kind' = files_per_kind \div i
            /\ not_empty' = FALSE
            /\ kind_idx' = 1
            /\ pc' = "legacy_kinds"
       ELSE /\ pc' = "legacy_done"
            /\ UNCHANGED <<files_per_kind, not_empty, kind_idx>>
    /\ UNCHANGED <<config, all_kinds, remaining_samples, selected_files,
                   files_left, files_inserted, i, lib_val,
                   outsideLegacy>>

\* main.py:228-247: one pass of the body of `for kind_key, kind_val in
\* lib_val.items()`; the files of the sample are copied one by one, each
\* adding 1 to files_inserted
LegacyKindStep ==
    /\ pc = "legacy_kinds"
    /\ kind_idx <= Len(lib_val)
    /\ LET kind_key == lib_val[kind_idx].key
           kind_val == lib_val[kind_idx].files
           sample_num == Min(files_per_kind, Len(kind_val))
       IN  IF kind_key \in Range(all_kinds) /\ sample_num > 0
           THEN /\ not_empty' = TRUE
                /\ files_left' = files_left - sample_num
                /\ IF LegacyMayDraw(files_left')
                   THEN \E random_subset \in RandomSample(kind_val, sample_num) :
                           /\ lib_val' = [lib_val EXCEPT ![kind_idx].files =
                                             RemainingAfter(kind_val, random_subset)]
                           /\ files_inserted' = files_inserted + Len(random_subset)
                   ELSE UNCHANGED <<lib_val, files_inserted>>
           ELSE UNCHANGED <<not_empty, files_left, lib_val, files_inserted>>
    /\ kind_idx' = kind_idx + 1
    /\ UNCHANGED <<config, pc, all_kinds, remaining_samples, selected_files,
                   files_per_kind, i, outsideLegacy>>

\* main.py:248
LegacyRoundEnd ==
    /\ pc = "legacy_kinds"
    /\ kind_idx > Len(lib_val)
    /\ i' = i + 1
    /\ pc' = "legacy_loop"
    /\ UNCHANGED <<config, all_kinds, remaining_samples, selected_files, files_left,
                   files_inserted, files_per_kind, not_empty, kind_idx, lib_val, outsideLegacy>>

NextLegacy == LegacyReduce \/ LegacyRoundStart \/ LegacyKindStep \/ LegacyRoundEnd

\* main.py's main for one library of LIBRARY_MAP
SpecLegacy == InitLegacy /\ [][NextLegacy]_vars

(* --------------------------- collect_wav_files -------------------------- *)
\* A string that the code inspects (a directory name, a filename, a
\* substring of include_dirs) is a sequence of one-character strings.
UpperLetters ==
    <<"A", "B", "C", "D", "E", "F", "G", "H", "I", "J", "K", "L", "M",
      "N", "O", "P", "Q", "R", "S", "T", "U", "V", "W", "X", "Y", "Z">>

LowerLetters ==
    <<"a", "b", "c", "d", "e", "f", "g", "h", "i", "j", "k", "l", "m",
      "n", "o", "p", "q", "r", "s", "t", "u", "v", "w", "x", "y", "z">>

LowerChar(c) ==
    IF \E j \in 1..Len(UpperLetters) : UpperLetters[j] = c
    THEN LowerLetters[CHOOSE j \in 1..Len(UpperLetters) : UpperLetters[j] = c]
    ELSE c

\* str.lower()
Lower(s) == [j \in 1..Len(s) |-> LowerChar(s[j])]

\* Python's `sub in s` for strings
Contains(s, sub) ==
    \E j \in 0..(Len(s) - Len(sub)) : SubSeq(s, j + 1, j + Len(sub)) = sub

\* str.endswith
EndsWith(s, suffix) ==
    Len(s) >= Len(suffix) /\ SubSeq(s, Len(s) - Len(suffix) + 1, Len(s)) = suffix

\* a directory is the sequence of its path components; str(dirpath) joins
\* them with "/"
RECURSIVE PathStr(_)
PathStr(dir) ==
    IF dir = <<>> THEN <<>> ELSE <<"/">> \o Head(dir) \o PathStr(Tail(dir))

\* directory a is directory b or above it
IsPrefix(a, b) == Len(a) <= Len(b) /\ SubSeq(b, 1, Len(a)) = a

DotWav == <<".", "w", "a", "v">>

\* [_\s] of the note patterns (pack.py:693-699)
Separators == {"_", " "}

\* pack.py:837
MAX_FILE_SIZE_KB == 400

\* pack.py:693: (^|[_\s])C[3-6](?=[_\s]?$), as the alternatives of the note
\* name, whether "-" may follow it, and the octave digits
C_NOTES_SYNTH == [notes |-> {<<"C">>}, minus |-> FALSE, digits |-> {"3", "4", "5", "6"}]

\* pack.py:694
C_NOTES_BASS == [notes |-> {<<"C">>}, minus |-> FALSE, digits |-> {"0", "1", "2"}]

\* pack.py:696: (^|[_\s])(D#|Eb)-?[0-6](?=[_\s]?$)
DSHARP_NOTES_ALL ==
    [notes |-> {<<"D", "#">>, <<"E", "b">>}, minus |-> TRUE,
     digits |-> {"0", "1", "2", "3", "4", "5", "6"}]

\* pattern.search(filename) with re.IGNORECASE (pack.py:961, 988) for a note
\* pattern: the note starts the name or follows a separator, then the
\* optional "-", one octave digit, and then the name ends, at once or after
\* one separator
Search(pattern, filename) ==
    \E start \in 1..Len(filename), note \in pattern.notes, dash \in {0, 1} :
        LET digit == start + Len(note) + dash
        IN  /\ start = 1 \/ filename[start - 1] \in Separators
            /\ digit <= Len(filename)
            /\ Lower(SubSeq(filename, start, start + Len(note) - 1)) = Lower(note)
            /\ dash = 1 => (pattern.minus /\ filename[digit - 1] = "-")
            /\ filename[digit] \in pattern.digits
            /\ \/ digit = Len(filename)
               \/ digit + 1 = Len(filename) /\ filename[digit + 1] \in Separators

\* DirSkipped when only exclude_dirs is applied
DirSkipped_ExcludeOnly(dir, include, exclude) ==
    /\ exclude # <<>>
    /\ \E j \in 1..Len(exclude) : Contains(Lower(PathStr(dir)), Lower(exclude[j]))

\* pack.py:968-975: the directory is passed over (`continue`)
DirSkipped(dir, include, exclude) ==
    LET current_dir_path_lower == Lower(PathStr(dir))
    IN  \/ /\ include # <<>>
           /\ ~ \E j \in 1..Len(include) :
                    Contains(current_dir_path_lower, Lower(include[j]))
        \/ /\ exclude # <<>>
           /\ \E j \in 1..Len(exclude) :
                    Contains(current_dir_path_lower, Lower(exclude[j]))

\* CollectFiles when a file of exactly the ceiling is turned away
RECURSIVE CollectFiles_Below(_, _, _)
CollectFiles_Below(dir, files, pattern) ==
    IF files = <<>> THEN [raised |-> FALSE, files |-> <<>>]
    ELSE LET f == Head(files)
             rest == CollectFiles_Below(dir, Tail(files), pattern)
         IN  IF ~EndsWith(Lower(f.name), DotWav) THEN rest
             ELSE IF f.stat = "FileNotFoundError" THEN rest
             ELSE IF f.stat = "PermissionError"
                  THEN [raised |-> TRUE, files |-> <<>>]
             ELSE IF rest.raised THEN rest
             ELSE IF /\ f.size < MAX_FILE_SIZE_KB * 1024
                     /\ (pattern = <<>> \/ Search(pattern[1], f.name))
                  THEN [rest EXCEPT !.files = <<<<dir, f.name>>>> \o @]
             ELSE rest

\* pack.py:977-991 for the filenames of one directory: the paths appended,
\* or raised when stat fails with an error that is not FileNotFoundError.
\* A file is [name, size (st_size, bytes), stat (how stat ends)].
RECURSIVE CollectFiles(_, _, _)
CollectFiles(dir, files, pattern) ==
    IF files = <<>> THEN [raised |-> FALSE, files |-> <<>>]
    ELSE LET f == Head(files)
             rest == CollectFiles(dir, Tail(files), pattern)
         IN  IF ~EndsWith(Lower(f.name), DotWav) THEN rest
             ELSE IF f.stat = "FileNotFoundError" THEN rest
             ELSE IF f.stat = "PermissionError"
                  THEN [raised |-> TRUE, files |-> <<>>]
             ELSE IF rest.raised THEN rest
             ELSE IF /\ f.size <= MAX_FILE_SIZE_KB * 1024
                     /\ (pattern = <<>> \/ Search(pattern[1], f.name))
                  THEN [rest EXCEPT !.files = <<<<dir, f.name>>>> \o @]
             ELSE rest

\* the directories of the sample library, a parent before its children (the
\* order of os.walk, top-down; the order of siblings is the order of
\* os.listdir, which no caller depends on)
DirUniverse ==
    << << <<"L">> >>,
       << <<"L">>, <<"K", "i", "c", "k", "s">> >>,
       << <<"L">>, <<"K", "i", "c", "k", "s">>, <<"a", "r">> >>,
       << <<"L">>, <<"m", "i", "s", "c">> >>,
       << <<"L">>, <<"m", "i", "s", "c">>, <<"k", "i", "c", "k", "s">> >> >>

\* pack.py:964: the directories that os.walk(source_dir) visits, as
\* positions in DirUniverse (none when source_dir does not exist)
Walk(source_dir) ==
    SelectSeq([j \in 1..Len(DirUniverse) |-> j],
              LAMBDA j : IsPrefix(source_dir, DirUniverse[j]))

\* pack.py:963-964: the directories visited for all the roots, in order
RECURSIVE Visits(_)
Visits(roots) ==
    IF roots = <<>> THEN <<>> ELSE Walk(Head(roots)) \o Visits(Tail(roots))

\* pack.py:964-991 for a sequence of visited directories of the tree fs
RECURSIVE CollectDirs(_, _, _, _, _)
CollectDirs(fs, visits, pattern, include, exclude) ==
    IF visits = <<>> THEN [raised |-> FALSE, files |-> <<>>]
    ELSE LET dir == DirUniverse[Head(visits)]
             here == IF DirSkipped(dir, include, exclude)
                     THEN [raised |-> FALSE, files |-> <<>>]
                     ELSE CollectFiles(dir, fs[Head(visits)], pattern)
             rest == CollectDirs(fs, Tail(visits), pattern, include, exclude)
         IN  IF here.raised \/ rest.raised
             THEN [raised |-> TRUE, files |-> <<>>]
             ELSE [raised |-> FALSE, files |-> here.files \o rest.files]

\* pack.py:944-992
collect_wav_files(fs, roots, pattern, include, exclude) ==
    CollectDirs(fs, Visits(roots), pattern, include, exclude)

\* filenames
SampleWav == <<"a", ".", "w", "a", "v">>

UpperWav == <<"b", ".", "W", "A", "V">>

NoteWav == <<"C", "3", ".", "w", "a", "v">>

NoteOnly == <<"x", " ", "c", "3">>

NotAudio == <<"a", ".", "m", "p", "3">>

\* a file of a few bytes that stat finds
SmallWav == [name |-> SampleWav, size |-> 1024, stat |-> "ok"]

\* the files a directory can hold: any name, a size at or just above the
\* ceiling, any end of stat
FileOptions ==
    [name : {SampleWav, UpperWav, NoteWav, NoteOnly, NotAudio},
     size : {MAX_FILE_SIZE_KB * 1024, MAX_FILE_SIZE_KB * 1024 + 1},
     stat : {"ok", "FileNotFoundError", "PermissionError"}]

\* sequences over S of length up to n
SeqsUpTo(S, n) == UNION {[1..len -> S] : len \in 0..n}

\* trees for the walk: every directory is empty or holds one small .wav file
WalkTrees == [1..Len(DirUniverse) -> {<<>>, <<SmallWav>>}]

\* trees for the file filters: the files are in the library's top directory,
\* no two of the same name
FileTrees ==
    {[j \in 1..Len(DirUniverse) |-> IF j = 1 THEN files ELSE <<>>] :
        files \in {fl \in SeqsUpTo(FileOptions, MaxDirFiles) :
                      \A a, b \in 1..Len(fl) : a # b => fl[a].name # fl[b].name}}

\* substrings for include_dirs and exclude_dirs
IncludeOptions == {<<>>, << <<"k", "i", "c", "k">> >>, << <<"A", "R">> >>}

ExcludeOptions == {<<>>, << <<"m", "i", "s", "c">> >>, << <<"a", "r">>, <<"x">> >>}

\* a call of collect_wav_files: the roots are any directories of the
\* library, also one inside another (pack.py:37-38) or one twice
InitCollect ==
    /\ \/ /\ tree \in WalkTrees
          /\ source_dirs \in SeqsUpTo(Range(DirUniverse), MaxRoots)
          /\ regex = <<>>
          /\ include_dirs \in IncludeOptions
          /\ exclude_dirs \in ExcludeOptions
       \/ /\ tree \in FileTrees
          /\ source_dirs = <<DirUniverse[1]>>
          /\ regex \in {<<>>, <<C_NOTES_SYNTH>>, <<C_NOTES_BASS>>, <<DSHARP_NOTES_ALL>>}
          /\ include_dirs = <<>>
          /\ exclude_dirs = <<>>
    /\ wav_files = <<>>
    /\ pc = "collect"
    /\ MAX_FILES_PER_PACK = MaxBudget
    /\ MAX_FOLDERS_PER_PACK = MaxFolders
    /\ sample_map = <<>>
    /\ Locals
    /\ NotLegacy
    /\ NoNames
    /\ NoMain

\* pack.py:944-992: the whole call; an error of stat other than
\* FileNotFoundError leaves the function as an exception
CollectWavFiles ==
    /\ pc = "collect"
    /\ LET result == collect_wav_files(tree, source_dirs, regex,
                                       include_dirs, exclude_dirs)
       IN  /\ wav_files' = result.files
           /\ pc' = IF result.raised THEN "collect_raised" ELSE "collected"
    /\ UNCHANGED <<tree, source_dirs, regex, include_dirs, exclude_dirs>>
    /\ UNCHANGED <<config, all_kinds, remaining_samples, selected_files, files_left,
                   files_inserted, files_per_kind, i, not_empty, kind_idx>>
    /\ UNCHANGED outsideCollect

NextCollect == CollectWavFiles

SpecCollect == InitCollect /\ [][NextCollect]_vars

(* --------------------- generate_unique_two_word_names ------------------- *)
UpperChar(c) ==
    IF \E j \in 1..Len(LowerLetters) : LowerLetters[j] = c
    THEN UpperLetters[CHOOSE j \in 1..Len(LowerLetters) : LowerLetters[j] = c]
    ELSE c

\* str.capitalize(): the first character in upper case, the rest in lower
Capitalize(s) ==
    [j \in 1..Len(s) |-> IF j = 1 THEN UpperChar(s[j]) ELSE LowerChar(s[j])]

\* the vocabulary of fake.word()
Words ==
    {<<"s", "u", "n">>, <<"s", "k", "y">>, <<"s", "e", "a">>, <<"a", "i", "r">>}

\* pack.py:867: f"{word1} {word2}"
TwoWordName(word1, word2) == word1 \o <<" ">> \o word2

\* entries that os.listdir(PLAY_PACKS_DIR) can return (pack.py:1158): packs
\* made earlier, whose names the vocabulary can produce again, and a file
\* of the operating system
ListedNames ==
    {<<"S", "u", "n", " ", "S", "k", "y">>,
     <<"S", "e", "a", " ", "A", "i", "r">>,
     <<".", "D", "S">>}

\* NameAccepted when a name is taken whether or not it exists already
NameAccepted_Any(name, existing) == TRUE

\* pack.py:868: if name not in existing_names
NameAccepted(name, existing) == name \notin existing

\* a call of generate_unique_two_word_names(num_packs, existing_names) with
\* Faker's record of the words it has handed out still empty, as in main
\* (pack.py:1161)
InitNames ==
    /\ num_packs \in 0..MaxNames
    /\ existing_names \in SUBSET ListedNames
    /\ names = {}
    /\ fake_unique = {}
    /\ pc = "names"
    /\ MAX_FILES_PER_PACK = MaxBudget
    /\ MAX_FOLDERS_PER_PACK = MaxFolders
    /\ sample_map = <<>>
    /\ Locals
    /\ NotLegacy
    /\ NoWalk
    /\ NoMain

\* pack.py:864-870: one pass of `while len(names) < n`, or the return; the
\* argument n is main's num_packs.
\* fake.unique.word() returns a word it has not returned before; it draws at
\* random and raises UniquenessException when its attempts only find words
\* it has returned, which can happen as soon as one word has been returned
\* and must happen when none is left.
NameStep ==
    /\ pc = "names"
    /\ IF Cardinality(names) < num_packs
       THEN \/ \E word1 \in Words \ fake_unique :
                 \E word2 \in Words \ (fake_unique \cup {word1}) :
                    LET name == TwoWordName(Capitalize(word1), Capitalize(word2))
                    IN  /\ fake_unique' = fake_unique \cup {word1, word2}
                        /\ names' = IF NameAccepted(name, existing_names)
                                    THEN names \cup {name} ELSE names
                        /\ pc' = "names"
            \/ /\ fake_unique # {}
               /\ pc' = "names_raised"
               /\ UNCHANGED <<names, fake_unique>>
            \/ /\ \E word1 \in Words \ fake_unique :
                     fake_unique' = fake_unique \cup {word1}
               /\ pc' = "names_raised"
               /\ UNCHANGED names
       ELSE /\ pc' = "names_returned"
            /\ UNCHANGED <<names, fake_unique>>
    /\ UNCHANGED <<num_packs, existing_names>>
    /\ UNCHANGED <<config, all_kinds, remaining_samples, selected_files, files_left,
                   files_inserted, files_per_kind, i, not_empty, kind_idx>>
    /\ UNCHANGED outsideNamer

NextNames == NameStep

SpecNames == InitNames /\ [][NextNames]_vars

(* ------------------ main and the materialization of a pack -------------- *)
\* PLAY_PACKS_DIR (pack.py:833) is the set disk of <<path, content>> pairs.
\* A path is relative to PLAY_PACKS_DIR: <<>> the directory itself, <<pack>>,
\* <<pack, subfolder>>, <<pack, subfolder, filename>>.  The content is "dir"
\* or, for a file, "hidden" (a file whose name starts with "."), "copied"
\* (a copy that was not normalized), "mono" or "stereo" (normalized).
Exists(d, path) == \E e \in d : e[1] = path

\* create or overwrite the entry of path
Write(d, path, content) == {e \in d : e[1] # path} \cup {<<path, content>>}

\* Path.unlink
Unlink(d, path) == {e \in d : e[1] # path}

\* pack.py:1157-1158: set(os.listdir(PLAY_PACKS_DIR)) if the directory
\* exists, else the empty set
existing_packs(d) == {e[1][1] : e \in {x \in d : Len(x[1]) = 1}}

\* pack.py:717-831, reduced to four subfolders of its sixteen: Kick with a
\* root inside another root (pack.py:37-38), Synth with its pattern and
\* exclusion, and Random, whose roots include those of Snare (pack.py:688-690)
SUBFOLDER_CONFIG ==
    <<[key |-> "Kick", source_dirs |-> <<DirUniverse[2], DirUniverse[3]>>,
       channels |-> 1, regex |-> <<>>, include_dirs |-> <<>>, exclude_dirs |-> <<>>],
      [key |-> "Snare", source_dirs |-> <<DirUniverse[4]>>,
       channels |-> 1, regex |-> <<>>, include_dirs |-> <<>>, exclude_dirs |-> <<>>],
      [key |-> "Synth", source_dirs |-> <<DirUniverse[5]>>,
       channels |-> 2, regex |-> <<C_NOTES_SYNTH>>, include_dirs |-> <<>>,
       exclude_dirs |-> << <<"c", "h", "o", "r", "d">> >>],
      [key |-> "Random", source_dirs |-> <<DirUniverse[4], DirUniverse[5]>>,
       channels |-> 1, regex |-> <<>>, include_dirs |-> <<>>, exclude_dirs |-> <<>>]>>

\* pack.py:1094: SUBFOLDER_CONFIG[subfolder].get("channels", 2)
Channels(subfolder) ==
    IF \E j \in 1..Len(SUBFOLDER_CONFIG) : SUBFOLDER_CONFIG[j].key = subfolder
    THEN SUBFOLDER_CONFIG[CHOOSE j \in 1..Len(SUBFOLDER_CONFIG) :
                             SUBFOLDER_CONFIG[j].key = subfolder].channels
    ELSE 2

\* the content of a file that convert_audio has exported
Converted(channels) == IF channels = 1 THEN "mono" ELSE "stereo"

\* pack.py:1004-1013 on the tree fs: the pools in the order of the
\* configuration, or raised when a call of collect_wav_files raises
build_sample_map(subfolder_config, fs) ==
    LET pool(j) == collect_wav_files(fs, subfolder_config[j].source_dirs,
                                     subfolder_config[j].regex,
                                     subfolder_config[j].include_dirs,
                                     subfolder_config[j].exclude_dirs)
    IN  [raised |-> \E j \in 1..Len(subfolder_config) : pool(j).raised,
         map |-> [j \in 1..Len(subfolder_config) |->
                    [key |-> subfolder_config[j].key, files |-> pool(j).files]]]

\* NonPositive when no number of packs is turned away
NonPositive_Never(k) == FALSE

\* pack.py:1149: if num_packs <= 0
NonPositive(k) == k <= 0

\* sample libraries for main: no file at all; a kick under the inner root,
\* which the Kick pool holds twice; a file that the Snare and Random pools
\* share; a kick and a file that stat refuses
MainTrees ==
    {[j \in 1..Len(DirUniverse) |-> <<>>],
     [j \in 1..Len(DirUniverse) |-> IF j = 3 THEN <<SmallWav>> ELSE <<>>],
     [j \in 1..Len(DirUniverse) |-> IF j = 4 THEN <<SmallWav>> ELSE <<>>],
     [j \in 1..Len(DirUniverse) |->
        IF j = 3 THEN <<SmallWav>>
        ELSE IF j = 5 THEN <<[SmallWav EXCEPT !.stat = "PermissionError"]>>
        ELSE <<>>]}

\* PLAY_PACKS_DIR before the run: missing, or holding an earlier pack and a
\* hidden file
MainDisks ==
    {{},
     {<< <<>>, "dir" >>},
     {<< <<>>, "dir" >>,
      << << <<"S", "u", "n", " ", "S", "k", "y">> >>, "dir" >>,
      << << <<".", "D", "S">> >>, "hidden" >>}}

\* the command line: no subcommand, or `pack num_packs`
InitMain ==
    /\ \/ command = "none" /\ num_packs = 0
       \/ command = "pack" /\ num_packs \in -1..MaxNames
    /\ disk \in MainDisks
    /\ tree \in MainTrees
    /\ MAX_FILES_PER_PACK \in 1..MaxMainBudget
    /\ MAX_FOLDERS_PER_PACK = MaxFolders
    /\ pc = "main"
    /\ sample_map = <<>>
    /\ Locals
    /\ NotLegacy
    /\ source_dirs = <<>> /\ regex = <<>> /\ include_dirs = <<>>
    /\ exclude_dirs = <<>> /\ wav_files = <<>>
    /\ existing_names = {} /\ names = {} /\ fake_unique = {}
    /\ pending = {} /\ pack_name = <<>> /\ sub_idx = 0 /\ file_idx = 0

\* what main leaves alone outside create_sample_pack's locals
mainRest == <<lib_val, source_dirs, regex, include_dirs, exclude_dirs, wav_files>>

planLocals == <<all_kinds, remaining_samples, selected_files, files_left,
                files_inserted, files_per_kind, i, not_empty, kind_idx>>

\* pack.py:1144-1158 and 1178-1179: the subcommand, the test of num_packs,
\* the listing of PLAY_PACKS_DIR
MainStart ==
    /\ pc = "main"
    /\ IF command = "pack" /\ ~NonPositive(num_packs)
       THEN /\ existing_names' = existing_packs(disk)
            /\ pc' = "names"
       ELSE /\ pc' = "main_returned"
            /\ UNCHANGED existing_names
    /\ UNCHANGED <<config, planLocals, mainRest, tree, num_packs, names, fake_unique,
                   command, disk, pending, pack_name, sub_idx, file_idx>>

\* NamesFailed when the exception is reported and main goes on with the
\* names it has
NamesFailed_GoOn ==
    /\ pc = "names_raised"
    /\ pc' = "names_returned"
    /\ UNCHANGED <<config, planLocals, mainRest, tree, namerVars,
                   command, disk, pending, pack_name, sub_idx, file_idx>>

\* pack.py:1162-1164: the exception of the name generator is reported and
\* main returns
NamesFailed ==
    /\ pc = "names_raised"
    /\ pc' = "main_returned"
    /\ UNCHANGED <<config, planLocals, mainRest, tree, namerVars,
                   command, disk, pending, pack_name, sub_idx, file_idx>>

\* pack.py:1166-1172: the pools are built; an exception of
\* collect_wav_files ends main
BuildSampleMap ==
    /\ pc = "names_returned"
    /\ LET built == build_sample_map(SUBFOLDER_CONFIG, tree)
       IN  IF built.raised
           THEN /\ pc' = "main_raised"
                /\ UNCHANGED <<sample_map, pending>>
           ELSE /\ sample_map' = built.map
                /\ pending' = names
                /\ pc' = "next_pack"
    /\ UNCHANGED <<MAX_FILES_PER_PACK, MAX_FOLDERS_PER_PACK, planLocals, mainRest,
                   tree, namerVars, command, disk, pack_name, sub_idx, file_idx>>

\* pack.py:1114-1133: os.remove of every hidden file; a removal that fails
\* is reported and the file stays
DeleteHiddenOutcomes(d) ==
    {{e \in d : e[2] # "hidden" \/ e \in kept} :
        kept \in SUBSET {e \in d : e[2] = "hidden"}}

\* pack.py:1172-1177: the next name of the set, in any order, or
\* delete_hidden_files and the return
NextPack ==
    /\ pc = "next_pack"
    /\ IF pending # {}
       THEN /\ \E name \in pending :
                 /\ pack_name' = name
                 /\ pending' = pending \ {name}
            /\ pc' = "mkdir"
            /\ UNCHANGED disk
       ELSE /\ disk' \in DeleteHiddenOutcomes(disk)
            /\ pc' = "main_returned"
            /\ UNCHANGED <<pack_name, pending>>
    /\ UNCHANGED <<config, planLocals, mainRest, tree, namerVars, command,
                   sub_idx, file_idx>>

\* pack.py:1024-1025 and the fresh locals of the call: pack_dir.mkdir with
\* parents=True, exist_ok=True, or the OSError it raises, which nothing
\* catches
MakePackDir ==
    /\ pc = "mkdir"
    /\ \/ /\ disk' = Write(Write(disk, <<>>, "dir"), <<pack_name>>, "dir")
          /\ pc' = "start"
          /\ sub_idx' = 1
          /\ file_idx' = 0
          /\ all_kinds' = <<>>
          /\ remaining_samples' = <<>>
          /\ selected_files' = <<>>
          /\ files_left' = 0
          /\ files_inserted' = 0
          /\ files_per_kind' = 0
          /\ i' = 0
          /\ not_empty' = FALSE
          /\ kind_idx' = 0
       \/ /\ pc' = "main_raised"
          /\ UNCHANGED <<disk, sub_idx, file_idx, planLocals>>
    /\ UNCHANGED <<config, mainRest, tree, namerVars, command, pending, pack_name>>

\* pack.py:1089-1094: the next subfolder of selected_files; one without
\* files is passed over, for the others dest_subfolder is made, or mkdir
\* raises an OSError, which nothing catches
NextSubfolder ==
    /\ pc = "done"
    /\ file_idx = 0
    /\ sub_idx <= Len(sample_map)
    /\ LET subfolder == sample_map[sub_idx].key
       IN  IF selected_files[subfolder] = <<>>
           THEN /\ sub_idx' = sub_idx + 1
                /\ UNCHANGED <<disk, file_idx, pc>>
           ELSE \/ /\ disk' = Write(disk, <<pack_name, subfolder>>, "dir")
                   /\ file_idx' = 1
                   /\ UNCHANGED <<sub_idx, pc>>
                \/ /\ pc' = "main_raised"
                   /\ UNCHANGED <<disk, sub_idx, file_idx>>
    /\ UNCHANGED <<config, planLocals, mainRest, tree, namerVars, command,
                   pending, pack_name>>

\* the library after the file at file_path was rewritten in place
SourceRewritten(fs, file_path) ==
    [j \in 1..Len(fs) |->
        IF DirUniverse[j] = file_path[1]
        THEN [n \in 1..Len(fs[j]) |->
                IF fs[j][n].name = file_path[2]
                THEN [fs[j][n] EXCEPT !.size = @ \div 2]
                ELSE fs[j][n]]
        ELSE fs[j]]

\* ProcessFile when convert_audio is given file_path, the file of the
\* library, and not dest_file_path
ProcessFile_InPlace ==
    /\ pc = "done"
    /\ file_idx >= 1
    /\ LET subfolder == sample_map[sub_idx].key
           files == selected_files[subfolder]
           dest_file_path == <<pack_name, subfolder, files[file_idx][2]>>
       IN  /\ \/ /\ disk' = Write(disk, dest_file_path, "copied")
                 /\ tree' = SourceRewritten(tree, files[file_idx])
              \/ /\ disk' = Write(disk, dest_file_path, "copied")
                 /\ tree' = tree
              \/ /\ disk' = Unlink(disk, dest_file_path)
                 /\ tree' = tree
              \/ /\ disk' = Write(disk, dest_file_path, "partial")
                 /\ tree' = tree
           /\ IF file_idx < Len(files)
              THEN file_idx' = file_idx + 1 /\ UNCHANGED sub_idx
              ELSE file_idx' = 0 /\ sub_idx' = sub_idx + 1
    /\ UNCHANGED <<config, planLocals, mainRest, namerVars, command,
                   pending, pack_name, pc>>

\* pack.py:1096-1109 and 914-941 for one file of the subfolder.  copy2 and
\* convert_audio both succeed; or convert_audio fails, reports it and
\* returns (pack.py:938-941), so that the copy stays as it is; or copy2
\* raises and the except branch unlinks dest_file_path if it exists; or the
\* unlink fails too and what copy2 wrote stays.
ProcessFile ==
    /\ pc = "done"
    /\ file_idx >= 1
    /\ LET subfolder == sample_map[sub_idx].key
           files == selected_files[subfolder]
           dest_file_path == <<pack_name, subfolder, files[file_idx][2]>>
       IN  /\ \/ disk' = Write(disk, dest_file_path, Converted(Channels(subfolder)))
              \/ disk' = Write(disk, dest_file_path, "copied")
              \/ disk' = Unlink(disk, dest_file_path)
              \/ disk' = Write(disk, dest_file_path, "partial")
           /\ IF file_idx < Len(files)
              THEN file_idx' = file_idx + 1 /\ UNCHANGED sub_idx
              ELSE file_idx' = 0 /\ sub_idx' = sub_idx + 1
    /\ UNCHANGED <<config, planLocals, mainRest, tree, namerVars, command,
                   pending, pack_name, pc>>

\* pack.py:1111: create_sample_pack returns
PackDone ==
    /\ pc = "done"
    /\ file_idx = 0
    /\ sub_idx > Len(sample_map)
    /\ pc' = "next_pack"
    /\ UNCHANGED <<config, planLocals, mainRest, tree, namerVars, command, disk,
                   pending, pack_name, sub_idx, file_idx>>

NextMain ==
    \/ MainStart
    \/ NameStep
    \/ NamesFailed
    \/ BuildSampleMap
    \/ NextPack
    \/ MakePackDir
    \/ SelectSubfolders
    \/ RoundStart
    \/ KindStep
    \/ RoundEnd
    \/ NextSubfolder
    \/ ProcessFile
    \/ PackDone

\* pack.py's main for one command line
SpecMain == InitMain /\ [][NextMain]_vars

(* ------------------------ quantities of the claims --------------------- *)
\* the plan's total: sum(len(files) for files in selected_files.values())
PlanTotal == SumLen(selected_files, DOMAIN selected_files)

\* the candidate files of the admitted categories, counted per pool
Supply == SumLen([k \in Range(all_kinds) |-> Get(sample_map, k)], Range(all_kinds))

\* the number of categories with a non-empty pool (P)
NonEmptyPools == Cardinality({j \in 1..Len(sample_map) : sample_map[j].files # <<>>})

\* no path occurs twice in sample_map, neither within a pool nor in two pools
NoRepeatedPath ==
    \A j1, j2 \in 1..Len(sample_map) :
        \A a \in 1..Len(sample_map[j1].files), b \in 1..Len(sample_map[j2].files) :
            (j1 # j2 \/ a # b) => sample_map[j1].files[a] # sample_map[j2].files[b]

\* the rounds of the allocation loop run so far (i counts from 1)
Rounds == IF pc = "start" THEN 0 ELSE i - 1

\* ceil(log2(b)) for b >= 1
CeilLog2(b) == CHOOSE e \in 0..b : 2^e >= b /\ (e = 0 \/ 2^(e - 1) < b)

(* -------------------------------- claims ------------------------------- *)
\* C1  Budget bound: at every point of create_sample_pack the lists of
\* selected_files hold at most MAX_FILES_PER_PACK files in total.
C1_BudgetBound == PlanTotal <= MAX_FILES_PER_PACK

\* the budget binds: a draw of several files was cut to the one file the
\* budget had left, and the plan ends at exactly the budget
C1_Witness ==
    /\ pc = "done"
    /\ PlanTotal = MAX_FILES_PER_PACK
    /\ Supply > MAX_FILES_PER_PACK
    /\ i = 3
    /\ files_per_kind >= 2
    /\ \E k \in Range(all_kinds) :
          /\ Len(remaining_samples[k]) >= 1
          /\ Len(selected_files[k]) % 2 = 1
          /\ Len(Get(sample_map, k)) >= MaxDeepLen

\* the budget allows every admitted category two files or more in round 1,
\* as 255 does for 20 folders
AmpleBudget == MAX_FILES_PER_PACK >= 2 * Len(all_kinds)

\* C2  Exhaustive-supply convergence: when the admitted pools hold at least
\* MAX_FILES_PER_PACK files, the finished plan totals exactly
\* MAX_FILES_PER_PACK.  Stated for maps in which no path occurs twice and
\* for an ample budget.
C2_ExactWhenSupplied ==
    (pc = "done" /\ NoRepeatedPath /\ AmpleBudget /\ Supply >= MAX_FILES_PER_PACK)
        => PlanTotal = MAX_FILES_PER_PACK

\* C3  Scarce-supply degradation: when the admitted pools hold fewer than
\* MAX_FILES_PER_PACK files, the finished plan holds every one of them.
\* Stated for maps in which no path occurs twice and for an ample budget.
C3_AllWhenScarce ==
    (pc = "done" /\ NoRepeatedPath /\ AmpleBudget /\ Supply < MAX_FILES_PER_PACK)
        => PlanTotal = Supply

\* C4  Folder bound: the selector admits exactly min(P, M) categories, P the
\* number of non-empty pools and M = MAX_FOLDERS_PER_PACK, none of them with
\* an empty pool, and at most M categories ever get a file.
C4_FolderBound ==
    pc # "start" =>
        /\ Len(all_kinds) = Min(NonEmptyPools, MAX_FOLDERS_PER_PACK)
        /\ Cardinality(Range(all_kinds)) = Len(all_kinds)
        /\ \A k \in Range(all_kinds) : Get(sample_map, k) # <<>>
        /\ Cardinality({k \in DOMAIN selected_files : selected_files[k] # <<>>})
              <= MAX_FOLDERS_PER_PACK

\* the cap binds and the allocation has run
C4_Witness ==
    /\ pc = "done"
    /\ NonEmptyPools > MAX_FOLDERS_PER_PACK
    /\ Cardinality({k \in DOMAIN selected_files : selected_files[k] # <<>>})
          = MAX_FOLDERS_PER_PACK

\* the non-empty priority categories in FILL_KEYS order, then the other
\* non-empty categories in the order of sample_map
PriorityFirst ==
    LET nonEmpty == {sample_map[j].key : j \in {n \in 1..Len(sample_map) :
                                                  sample_map[n].files # <<>>}}
    IN  SelectSeq(FILL_KEYS, LAMBDA k : k \in nonEmpty)
        \o SelectSeq(Keys(sample_map),
                     LAMBDA k : k \in nonEmpty /\ k \notin Range(FILL_KEYS))

\* C5  Priority admission: when more than M pools are non-empty, the admitted
\* list is the first M entries of PriorityFirst, so no other category is
\* admitted while a non-empty priority category is left out.
C5_PriorityAdmission ==
    (pc # "start" /\ NonEmptyPools > MAX_FOLDERS_PER_PACK) =>
        /\ all_kinds = Take(PriorityFirst, MAX_FOLDERS_PER_PACK)
        /\ (\E k \in Range(all_kinds) : k \notin Range(FILL_KEYS)) =>
               \A j \in 1..Len(sample_map) :
                   (sample_map[j].key \in Range(FILL_KEYS) /\ sample_map[j].files # <<>>)
                       => sample_map[j].key \in Range(all_kinds)

\* the cap binds: a priority category is admitted while an other category
\* that sample_map lists before it is left out, and an other category fills
\* the folder the priority categories leave free
C5_Witness ==
    /\ pc = "done"
    /\ NonEmptyPools > MAX_FOLDERS_PER_PACK
    /\ \E j1, j2 \in 1..Len(sample_map) :
          /\ j1 < j2
          /\ sample_map[j1].key \notin Range(FILL_KEYS)
          /\ sample_map[j1].files # <<>>
          /\ sample_map[j1].key \notin Range(all_kinds)
          /\ sample_map[j2].key \in Range(FILL_KEYS)
          /\ sample_map[j2].key \in Range(all_kinds)
    /\ all_kinds[Len(all_kinds)] \notin Range(FILL_KEYS)

\* C6  No cross-category duplication: no path is in the chosen lists of two
\* categories.
C6_NoCrossCategoryDuplicate ==
    \A k1, k2 \in DOMAIN selected_files :
        k1 # k2 => Range(selected_files[k1]) \cap Range(selected_files[k2]) = {}

\* C7  No duplication inside one category: the chosen list of a category
\* never holds the same path twice.
C7_NoDuplicateInCategory ==
    \A k \in DOMAIN selected_files :
        Cardinality(Range(selected_files[k])) = Len(selected_files[k])

\* how often path x occurs in list s
Occurrences(s, x) == Cardinality({j \in 1..Len(s) : s[j] = x})

\* C8  No over-draw: the files chosen for a category are files of its pool,
\* each chosen no more often than the pool lists it, so the chosen list is
\* never longer than the pool.
C8_NoOverDraw ==
    \A k \in DOMAIN selected_files :
        /\ Range(selected_files[k]) \subseteq Range(Get(sample_map, k))
        /\ Len(selected_files[k]) <= Len(Get(sample_map, k))
        /\ \A x \in Range(selected_files[k]) :
              Occurrences(selected_files[k], x) <= Occurrences(Get(sample_map, k), x)

\* a pool was drawn from in two rounds and is now drawn empty
C8_Witness ==
    /\ pc = "done"
    /\ i > 2
    /\ \E k \in Range(all_kinds) :
          /\ Len(Get(sample_map, k)) >= 3
          /\ Len(selected_files[k]) = Len(Get(sample_map, k))

\* C9  Termination: the allocation loop ends on every input, and a round in
\* which no category drew a file is the last one.
C9_Termination ==
    /\ <>(pc = "done")
    /\ [][(pc = "loop" /\ ~not_empty) => pc' = "done"]_vars

\* the loop has ended on a quota of 0 with budget and files left over
C9_Witness ==
    /\ pc = "done"
    /\ files_per_kind = 0
    /\ files_left > 0
    /\ \E k \in Range(all_kinds) : remaining_samples[k] # <<>>

\* C10  Round bound as claimed: the loop ends after at most
\* ceil(log2(B)) + n rounds, B the budget and n the admitted categories.
C10_RoundBoundLog ==
    pc = "done" => Rounds <= CeilLog2(MAX_FILES_PER_PACK) + Len(all_kinds)

\* C10 as amended: the loop ends after at most floor(B / n) + 1 rounds, and
\* after none when no category is admitted.
C10_RoundBound ==
    pc = "done" =>
        Rounds <= (IF Len(all_kinds) = 0 THEN 0
                   ELSE MAX_FILES_PER_PACK \div Len(all_kinds) + 1)

\* a run of floor(B / n) + 1 rounds, more than ceil(log2(B)) + n
C10_Witness ==
    /\ pc = "done"
    /\ Len(all_kinds) > 0
    /\ Rounds = MAX_FILES_PER_PACK \div Len(all_kinds) + 1
    /\ Rounds > CeilLog2(MAX_FILES_PER_PACK) + Len(all_kinds)

\* the admitted categories whose remaining pool is not empty
NonEmptyRemaining == {k \in Range(all_kinds) : remaining_samples[k] # <<>>}

\* a round has just computed its quota and no category has drawn yet
QuotaComputed == pc = "kinds" /\ kind_idx = 1

DrawOverBudget ==
    /\ pc = "kinds"
    /\ kind_idx <= Len(all_kinds)
    /\ files_left > 0
    /\ SampleNum(files_per_kind, remaining_samples[all_kinds[kind_idx]]) > files_left

\* C18  Budget clamp: files_left is never negative after a category step; a
\* draw that would take it below 0 adds exactly the files_left files that
\* fit and leaves 0; once files_left is 0 the plan no longer changes and the
\* loop test that follows ends the loop.
C18_BudgetClamp ==
    /\ [](files_left >= 0)
    /\ [][DrawOverBudget =>
            (files_left' = 0 /\ PlanTotal' = PlanTotal + files_left)]_vars
    /\ [][(files_left = 0 /\ pc \in {"kinds", "loop"}) =>
            (/\ selected_files' = selected_files
             /\ files_left' = 0
             /\ i' <= i + 1
             /\ (pc = "loop" => pc' = "done"))]_vars

\* a draw was cut in round 2 (the category before kind_idx got fewer files
\* than its two quotas although files are left in its pool), the budget is
\* spent and a category with files to offer is still to come in the round
C18_Witness ==
    /\ pc = "kinds"
    /\ i = 2
    /\ files_left = 0
    /\ files_per_kind >= 1
    /\ kind_idx >= 2
    /\ kind_idx <= Len(all_kinds)
    /\ remaining_samples[all_kinds[kind_idx]] # <<>>
    /\ LET k == all_kinds[kind_idx - 1]
       IN  /\ remaining_samples[k] # <<>>
           /\ Len(selected_files[k]) <
                  MAX_FILES_PER_PACK \div Len(all_kinds) + files_per_kind
           /\ Len(selected_files[k]) > MAX_FILES_PER_PACK \div Len(all_kinds)

\* C15  Legacy script file limit: the number of files main.py copies for a
\* library, files_inserted, never exceeds the file limit (255).
C15_LegacyFileLimit == files_inserted <= MAX_FILES_PER_PACK

\* the library is through, a sample was left out because the limit was
\* reached, and all but one of the files the limit allows were copied
C15_Witness ==
    /\ pc = "legacy_done"
    /\ files_left < 0
    /\ files_inserted = MAX_FILES_PER_PACK - 1
    /\ \E j \in 1..Len(lib_val) : lib_val[j].files # <<>>

\* the kept kinds of the library are no more than the folder limit, as the
\* 16 KEEPER_KINDS are fewer than 20
KeptKindsFit ==
    Cardinality({j \in 1..Len(lib_val) : lib_val[j].key \in Range(KEEPER_KINDS)})
        <= MAX_FOLDERS_PER_PACK

\* C16  Legacy script folder limit: after the two reduction passes the list
\* of kinds that files are drawn from has at most as many entries as the
\* folder limit (20), for a library with any number of kinds.
C16_LegacyFolderLimit ==
    (pc \in {"legacy_loop", "legacy_kinds", "legacy_done"} /\ KeptKindsFit) =>
        Len(all_kinds) <= MAX_FOLDERS_PER_PACK

\* C19  Pool deduplication: the list collect_wav_files returns holds each
\* path at most once, for every list of source roots, also when one root is
\* inside another or a root is listed twice.
C19_PoolDeduplicated ==
    pc = "collected" =>
        \A a, b \in 1..Len(wav_files) : a # b => wav_files[a] # wav_files[b]

\* the path of the directory at position j of DirUniverse contains one of
\* the substrings, case-insensitively
PathHasAny(j, substrings) ==
    \E h \in 1..Len(substrings) :
        Contains(Lower(PathStr(DirUniverse[j])), Lower(substrings[h]))

\* the paths collected from the directory at position j of DirUniverse
CollectedFrom(j) == {h \in 1..Len(wav_files) : wav_files[h][1] = DirUniverse[j]}

\* C20  Include filter as claimed: with include_dirs configured, a visited
\* directory whose path contains none of the substrings yields no file, and
\* neither does any directory below it, whatever that directory's own path.
C20_IncludeSkipsSubtree ==
    (pc = "collected" /\ include_dirs # <<>>) =>
        \A j \in Range(Visits(source_dirs)) :
            ~PathHasAny(j, include_dirs) =>
                \A k \in 1..Len(DirUniverse) :
                    IsPrefix(DirUniverse[j], DirUniverse[k]) => CollectedFrom(k) = {}

\* C20 as amended: with include_dirs configured, the filter is applied to
\* each visited directory by its own path: a directory whose path contains
\* none of the substrings yields no file, and a visited directory whose path
\* contains one (and no exclude substring) yields its eligible files, also
\* below a directory that was passed over.
C20_IncludePerDirectory ==
    (pc = "collected" /\ include_dirs # <<>>) =>
        /\ \A j \in 1..Len(DirUniverse) :
              ~PathHasAny(j, include_dirs) => CollectedFrom(j) = {}
        /\ \A j \in Range(Visits(source_dirs)) :
              (PathHasAny(j, include_dirs) /\ ~PathHasAny(j, exclude_dirs)) =>
                  \A h \in 1..Len(tree[j]) :
                      (/\ EndsWith(Lower(tree[j][h].name), DotWav)
                       /\ tree[j][h].stat = "ok"
                       /\ tree[j][h].size <= MAX_FILE_SIZE_KB * 1024) =>
                          \E g \in CollectedFrom(j) : wav_files[g][2] = tree[j][h].name

\* a directory that was passed over for its path holds a file, and a file
\* was collected from a directory below it
C20_Witness ==
    /\ pc = "collected"
    /\ include_dirs # <<>>
    /\ \E j \in Range(Visits(source_dirs)), k \in 1..Len(DirUniverse) :
          /\ ~PathHasAny(j, include_dirs)
          /\ tree[j] # <<>>
          /\ j # k
          /\ IsPrefix(DirUniverse[j], DirUniverse[k])
          /\ CollectedFrom(k) # {}

\* the name is two words: one space, with a word on either side
TwoWords(name) ==
    /\ Cardinality({j \in 1..Len(name) : name[j] = " "}) = 1
    /\ name[1] # " "
    /\ name[Len(name)] # " "

\* C12  Namer uniqueness: when generate_unique_two_word_names(n,
\* existing_names) returns, the result is a set of exactly n two-word names,
\* none of which is in existing_names.
C12_NamerUniqueness ==
    pc = "names_returned" =>
        /\ Cardinality(names) = num_packs
        /\ names \cap existing_names = {}
        /\ \A name \in names : TwoWords(name)

\* the call has returned names although a name it made was left out because
\* it exists already: more than two words were used up per name returned
C12_Witness ==
    /\ pc = "names_returned"
    /\ names # {}
    /\ Cardinality(fake_unique) > 2 * Cardinality(names)
    /\ \E word1, word2 \in fake_unique :
          TwoWordName(Capitalize(word1), Capitalize(word2)) \in existing_names

\* create_sample_pack has returned, or main has
PackReturned == pc \in {"next_pack", "main_returned"}

\* C11  Partial materialization failure: after create_sample_pack returns,
\* the destination copy of a chosen file whose normalization failed does
\* not exist in the pack: no file of the pack is a copy that was not
\* normalized.
C11_FailedNormalizationRemoved ==
    PackReturned => \A e \in disk : e[2] # "copied"

\* the entries of the packs of this run below the pack directory
NewPackEntries == {e \in disk : Len(e[1]) >= 2 /\ e[1][1] \in names}

\* C13  Zero admitted categories: when no category has a non-empty pool,
\* the allocation loop raises no error (no division by zero), selects no
\* file, and no category subfolder is made in the pack.
C13_ZeroCategories ==
    (sample_map # <<>> /\ NonEmptyPools = 0) =>
        /\ pc # "ZeroDivisionError"
        /\ PlanTotal = 0
        /\ NewPackEntries = {}

\* main has returned after it made every pack of the batch from pools that
\* are all empty: each pack is an empty directory
C13_Witness ==
    /\ pc = "main_returned"
    /\ sample_map # <<>>
    /\ NonEmptyPools = 0
    /\ Cardinality(names) = MaxNames
    /\ pending = {}
    /\ \A name \in names : Exists(disk, <<name>>)
    /\ all_kinds = <<>>
    /\ i = 1

\* C14  CLI rejection: with num_packs <= 0 the `pack` subcommand returns
\* without any side effect: every step it takes ends main and generates no
\* name, builds no pool, and creates, copies and deletes nothing in
\* PLAY_PACKS_DIR.
C14_CliRejection ==
    [][(command = "pack" /\ num_packs <= 0) =>
          /\ pc' = "main_returned"
          /\ UNCHANGED <<disk, names, fake_unique, existing_names, sample_map,
                         selected_files, pending, pack_name>>]_vars

\* main has returned on num_packs <= 0 and the hidden file of
\* PLAY_PACKS_DIR is still there
C14_Witness ==
    /\ pc = "main_returned"
    /\ command = "pack"
    /\ num_packs <= 0
    /\ names = {}
    /\ fake_unique = {}
    /\ sample_map = <<>>
    /\ \E e \in disk : e[2] = "hidden"

\* create_sample_pack is running and its plan is not yet complete: from the
\* call to the end of the allocation loop
PlanIncomplete == pc \in {"mkdir", "start", "loop", "kinds"}

\* C21  Materialization ordering: create_sample_pack changes nothing in the
\* destination tree (no directory made, no file copied or deleted) while the
\* allocation plan is not yet complete; so a call that admits no category
\* leaves the destination tree as it was.
C21_NoMutationBeforePlan ==
    [][PlanIncomplete => disk' = disk]_vars

\* main builds the pools (pack.py:1169) or create_sample_pack materializes
\* its plan (pack.py:1089-1109)
PerFileWork == pc \in {"names_returned", "done"}

\* C22  Error isolation: an I/O error on one file or one category (a stat
\* failure other than file-not-found while the pools are built, a failure of
\* the subfolder's mkdir, of the copy or of the normalization) is caught
\* where it happens and the run goes on: no step of the pool building or of
\* the materialization ends the run with an exception.
C22_ErrorIsolation ==
    [][PerFileWork => pc' # "main_raised"]_vars

\* the directories whose files a call of collect_wav_files looks at: visited
\* by the walk of a root and not passed over by the filters
Scanned ==
    {j \in Range(Visits(source_dirs)) :
        ~DirSkipped(DirUniverse[j], include_dirs, exclude_dirs)}

\* the eligibility of a file by its name and its size
Eligible(f) ==
    /\ EndsWith(Lower(f.name), DotWav)
    /\ f.size <= MAX_FILE_SIZE_KB * 1024
    /\ regex = <<>> \/ Search(regex[1], f.name)

Stem(name) == SubSeq(name, 1, Len(name) - Len(DotWav))

\* C30  Note-filtered pools can be populated: with a note pattern
\* configured, a file of the scanned directory that stat finds, that is
\* within the size ceiling and whose name is a stem ending in a matching
\* note token followed by ".wav" (as "C3.wav" for C_NOTES_SYNTH) is in the
\* returned pool.
C30_NoteFileCollected ==
    (pc = "collected" /\ regex # <<>>) =>
        \A j \in Scanned : \A n \in 1..Len(tree[j]) :
            LET f == tree[j][n]
            IN  (/\ EndsWith(Lower(f.name), DotWav)
                 /\ Search(regex[1], Stem(f.name))
                 /\ f.stat = "ok"
                 /\ f.size <= MAX_FILE_SIZE_KB * 1024)
                    => <<DirUniverse[j], f.name>> \in Range(wav_files)

\* C29  The earlier script handles an empty library: for a library that is
\* left without kinds after build_library_map has deleted its empty kind
\* lists, main raises no error and inserts no file.
C29_LegacyEmptyLibrary ==
    Len(lib_val) = 0 =>
        /\ pc # "legacy_raised"
        /\ files_inserted = 0

\* the allocation loop of create_sample_pack has its initial state or is
\* past it
InAllocation == pc \in {"loop", "kinds", "done"}

\* C24  Budget accounting: after every category step of the allocation loop
\* files_left >= 0, files_left + files_inserted = MAX_FILES_PER_PACK, and
\* files_inserted is the number of entries of selected_files.
C24_BudgetAccounting ==
    InAllocation =>
        /\ files_left >= 0
        /\ files_left + files_inserted = MAX_FILES_PER_PACK
        /\ files_inserted = PlanTotal

\* the second round is under way: a category has drawn in it, budget is
\* left, and more files are in the plan than there are categories
C24_Witness ==
    /\ pc = "kinds"
    /\ i = 2
    /\ kind_idx = 2
    /\ files_left > 0
    /\ files_inserted > Len(all_kinds)
    /\ Len(selected_files[all_kinds[1]]) > files_per_kind
    /\ Len(all_kinds) >= 2

\* a call of create_sample_pack is under way
InCreateSamplePack == pc \in {"mkdir", "start", "loop", "kinds", "done"}

\* C26  Pools are read-only across a batch: no step of create_sample_pack
\* changes the sample_map it was given, neither its keys nor a pool, so for
\* every pack of the batch sample_map is what build_sample_map returned and
\* a file can be chosen for several packs.
C26_PoolsReadOnly ==
    /\ [](sample_map # <<>> =>
            sample_map = build_sample_map(SUBFOLDER_CONFIG, tree).map)
    /\ [][InCreateSamplePack => sample_map' = sample_map]_vars

\* a batch of MaxNames packs is through and every pack holds the one kick of
\* the library
C26_Witness ==
    /\ pc = "main_returned"
    /\ Cardinality(names) = MaxNames
    /\ MaxNames >= 2
    /\ \A name \in names : Exists(disk, <<name, "Kick", SampleWav>>)

\* the entries of PLAY_PACKS_DIR that a step creates, changes or removes
DiskChanges == (disk' \ disk) \cup (disk \ disk')

\* C27  Source library is untouched: no step of create_sample_pack changes
\* or removes a file of the library, whether the processing of a file
\* succeeds or fails, and what the materialization writes, rewrites or
\* deletes lies inside the directory of the pack.
C27_SourceUntouched ==
    [][InCreateSamplePack =>
          /\ tree' = tree
          /\ pc = "done" =>
                \A e \in DiskChanges : Len(e[1]) >= 2 /\ e[1][1] = pack_name]_vars

\* a pack is through in which one copy was normalized and the other was
\* removed after a failure, both of the same file of the library
C27_Witness ==
    /\ pc = "next_pack"
    /\ pack_name # <<>>
    /\ <<<<pack_name, "Snare", SampleWav>>, "mono">> \in disk
    /\ Exists(disk, <<pack_name, "Random">>)
    /\ ~Exists(disk, <<pack_name, "Random", SampleWav>>)
    /\ tree[4] = <<SmallWav>>

\* the category folders of the pack that was made last
PackFolders ==
    {e \in disk : Len(e[1]) = 2 /\ e[1][1] = pack_name /\ e[2] = "dir"}

\* create_sample_pack has returned for pack_name; its locals are still those
\* of that call
PackThrough == pc = "next_pack" /\ pack_name # <<>>

\* C25  Every admitted category is served: when the budget is at least the
\* number of admitted categories, no draw of round 1 is clamped (each is of
\* min(quota, pool) files, the quota being at least 1), after round 1 every
\* admitted category has a file in the plan, and a call that returns has
\* made as many category folders as categories were admitted.
C25_EveryAdmittedServed ==
    MAX_FILES_PER_PACK >= Len(all_kinds) =>
        /\ (pc = "kinds" /\ i = 1) =>
              \A j \in 1..(kind_idx - 1) :
                  Len(selected_files[all_kinds[j]]) =
                      Min(MAX_FILES_PER_PACK \div Len(all_kinds),
                          Len(Get(sample_map, all_kinds[j])))
        /\ ((pc \in {"loop", "kinds"} /\ i >= 2) \/ pc = "done" \/ PackThrough) =>
              /\ \A k \in Range(all_kinds) : selected_files[k] # <<>>
              /\ all_kinds # <<>> => PlanTotal > 0
        /\ PackThrough => Cardinality(PackFolders) = Len(all_kinds)

\* a pack of two admitted categories and a budget of two files is through
\* with two category folders
C25_Witness ==
    /\ PackThrough
    /\ Len(all_kinds) >= 2
    /\ MAX_FILES_PER_PACK = Len(all_kinds)
    /\ Cardinality(PackFolders) = Len(all_kinds)
    /\ \A k \in Range(all_kinds) : Len(selected_files[k]) = 1

\* main has printed its success message and returned (pack.py:1177): the
\* pools were built and no call raised
Succeeded == pc = "main_returned" /\ sample_map # <<>>

\* the directories of PLAY_PACKS_DIR that were not listed before the run
NewPacks ==
    {e \in disk : Len(e[1]) = 1 /\ e[2] = "dir" /\ e[1][1] \notin existing_names}

\* a step of main while the names are generated or after the generator has
\* raised: nothing in PLAY_PACKS_DIR changes, no pool is built, and after
\* the exception main returns
QuietNameStep ==
    pc \in {"names", "names_raised"} =>
        /\ disk' = disk
        /\ sample_map' = sample_map
        /\ pending' = pending
        /\ pc = "names_raised" => pc' = "main_returned"

\* C28  Name-generation failure is side-effect free: while the names are
\* generated, and when the generator raises, nothing in PLAY_PACKS_DIR is
\* created or deleted and no pool is built; after the exception main
\* returns at once and does nothing more.  When main gets to its success
\* message, exactly num_packs packs have been created, one per generated
\* name.
C28_NameFailureNoSideEffect ==
    /\ [][QuietNameStep]_vars
    /\ [][pc # "main_returned"]_vars
    /\ [](Succeeded =>
             /\ Cardinality(names) = num_packs
             /\ NewPacks = {<< <<name>>, "dir" >> : name \in names})

\* the generator raised after it had made a name; main has returned, the
\* earlier pack and the hidden file of PLAY_PACKS_DIR are as they were, and
\* there is no pool and no new pack
C28_Witness ==
    /\ pc = "main_returned"
    /\ names # {}
    /\ Cardinality(names) < num_packs
    /\ sample_map = <<>>
    /\ NewPacks = {}
    /\ \E e \in disk : e[2] = "hidden"
    /\ existing_names # {}

====
